---- MODULE Spec2Model ----
(***************************************************************************)
(* Octavia ring numerals (streamlit_app.py): the octal normalizer and the  *)
(* Canonical / Compact / Ultra ring-count policies.                        *)
(*                                                                         *)
(* Strings are sequences of one-character strings; Python lists are        *)
(* sequences indexed from 1 (the source's index i is kept 0-based where it *)
(* is program state, and list element i is digs[i + 1]).                   *)
(*                                                                         *)
(*   Spec      tab 1: n -> format(n, "o") -> the policies of the view mode *)
(*   FairSpec  Spec with the interpreter always taking the next step       *)
(*   SpecNorm  tab 2: raw text -> normalize_octal_str                      *)
(*   SpecOnce  one call of ultra_once on an arbitrary ring-count list      *)
(***************************************************************************)
EXTENDS Integers, Sequences, FiniteSets, TLC

VARIABLES
    pc,         \* position of the running script
    n,          \* tab 1: the decimal number input
    mode,       \* the "View" radio label
    octal_str,  \* the octal string handed to the policies (norm)
    todo,       \* policy functions still to be called for this view
    d,          \* the list a fixpoint driver is rewriting
    counts,     \* policy name -> the list it returned
    fired,      \* how many calls of ultra_once rewrote a triple
    raw,        \* tab 2: the text input
    digs,       \* normalize_octal_str: digs
    i           \* normalize_octal_str: i (0-based, as in the source)

vars == <<pc, n, mode, octal_str, todo, d, counts, fired, raw, digs, i>>

\* ------------------------------------------------------------------ bounds
MaxN == 4095
MaxRaw == 3
MaxRing == 3

\* ------------------------------------------------------- strings, numbers
DigitChars == <<"0", "1", "2", "3", "4", "5", "6", "7", "8", "9">>

\* a character that str.isdigit rejects
OtherChars == {"x"}

Alphabet == {DigitChars[k] : k \in 1..Len(DigitChars)} \cup OtherChars

isdigit(ch) == \E k \in 1..Len(DigitChars) : DigitChars[k] = ch

\* int(c) for one digit character
int(c) == (CHOOSE k \in 1..Len(DigitChars) : DigitChars[k] = c) - 1

\* [int(c) for c in s]
ints(s) == [k \in 1..Len(s) |-> int(s[k])]

\* str(v) for an integer v >= 0, in decimal
RECURSIVE str(_)
str(v) == IF v < 10 THEN <<DigitChars[v + 1]>>
          ELSE str(v \div 10) \o <<DigitChars[(v % 10) + 1]>>

\* "".join(str(v) for v in seq)
RECURSIVE join_str(_)
join_str(seq) == IF seq = <<>> THEN <<>>
                 ELSE str(Head(seq)) \o join_str(Tail(seq))

\* format(v, "o")
RECURSIVE format_o(_)
format_o(v) == IF v < 8 THEN <<DigitChars[v + 1]>>
               ELSE format_o(v \div 8) \o <<DigitChars[(v % 8) + 1]>>

\* "".join(ch for ch in s if ch.isdigit())
RECURSIVE filter_digits(_)
filter_digits(s) ==
    IF s = <<>> THEN <<>>
    ELSE IF isdigit(Head(s)) THEN <<Head(s)>> \o filter_digits(Tail(s))
    ELSE filter_digits(Tail(s))

\* value(seq) = sum of seq[k] * 8^(L-k), most significant first
RECURSIVE value(_)
value(seq) == IF seq = <<>> THEN 0
              ELSE value(SubSeq(seq, 1, Len(seq) - 1)) * 8 + seq[Len(seq)]

\* ------------------------------------------------------------- normalizer
\* one iteration of the carry loop, for i >= 0
carry_step_noprepend(ds, k) ==
    IF ds[k + 1] >= 8
    THEN IF k = 0
         THEN [digs |-> [ds EXCEPT ![k + 1] = @ % 8], i |-> k - 1]
         ELSE [digs |-> [ds EXCEPT ![k + 1] = @ % 8,
                                   ![k] = @ + (ds[k + 1] \div 8)],
               i |-> k - 1]
    ELSE [digs |-> ds, i |-> k - 1]

carry_step(ds, k) ==
    IF ds[k + 1] >= 8
    THEN LET carry == ds[k + 1] \div 8
             rem == [ds EXCEPT ![k + 1] = @ % 8]
         IN  IF k = 0
             THEN [digs |-> <<carry>> \o rem, i |-> (k + 1) - 1]
             ELSE [digs |-> [rem EXCEPT ![k] = @ + carry], i |-> k - 1]
    ELSE [digs |-> ds, i |-> k - 1]

\* j = 0; while j < len(digs)-1 and digs[j] == 0: j += 1; digs = digs[j:]
RECURSIVE strip_leading_all(_)
strip_leading_all(ds) ==
    IF Len(ds) > 0 /\ ds[1] = 0 THEN strip_leading_all(Tail(ds)) ELSE ds

RECURSIVE strip_leading(_)
strip_leading(ds) ==
    IF Len(ds) > 1 /\ ds[1] = 0 THEN strip_leading(Tail(ds)) ELSE ds

\* ---------------------------------------------------------------- policies
to_counts_canonical(s) == IF s = <<"0">> THEN <<0>> ELSE ints(s)

\* while len(d) > 1 and d[0] == 0: d.pop(0); changed = True
RECURSIVE drop_outer(_)
drop_outer(r) ==
    IF Len(r.d) > 1 /\ r.d[1] = 0
    THEN drop_outer([d |-> Tail(r.d), changed |-> TRUE])
    ELSE r

\* the for loop of compact_once from pair (k, k+1) down to pair (1, 2)
RECURSIVE compact_scan_seven(_, _)
compact_scan_seven(r, k) ==
    IF k < 1 THEN r
    ELSE IF r.d[k] >= 1 /\ r.d[k + 1] = 0
    THEN compact_scan_seven([d |-> [r.d EXCEPT ![k] = @ - 1, ![k + 1] = 7],
                             changed |-> TRUE], k - 1)
    ELSE compact_scan_seven(r, k - 1)

RECURSIVE compact_scan_unguarded(_, _)
compact_scan_unguarded(r, k) ==
    IF k < 1 THEN r
    ELSE IF r.d[k + 1] = 0
    THEN compact_scan_unguarded([d |-> [r.d EXCEPT ![k] = @ - 1, ![k + 1] = 8],
                                 changed |-> TRUE], k - 1)
    ELSE compact_scan_unguarded(r, k - 1)

RECURSIVE compact_scan(_, _)
compact_scan(r, k) ==
    IF k < 1 THEN r
    ELSE IF r.d[k] >= 1 /\ r.d[k + 1] = 0
    THEN compact_scan([d |-> [r.d EXCEPT ![k] = @ - 1, ![k + 1] = 8],
                       changed |-> TRUE], k - 1)
    ELSE compact_scan(r, k - 1)

\* compact_once(d): the list after the call and the value returned
compact_once_flag_reset(ds) ==
    drop_outer([d |-> compact_scan([d |-> ds, changed |-> FALSE], Len(ds) - 1).d,
                changed |-> FALSE])

compact_once_always_changed(ds) ==
    [d |-> drop_outer(compact_scan([d |-> ds, changed |-> FALSE], Len(ds) - 1)).d,
     changed |-> TRUE]

compact_once_first_only(ds) ==
    drop_outer(compact_scan([d |-> ds, changed |-> FALSE],
                            IF Len(ds) > 1 THEN 1 ELSE 0))

compact_once(ds) ==
    drop_outer(compact_scan([d |-> ds, changed |-> FALSE], Len(ds) - 1))

\* the for loop of ultra_once from triple (k, k+1, k+2) down to (1, 2, 3)
RECURSIVE ultra_scan_loose(_, _)
ultra_scan_loose(r, k) ==
    IF k < 1 THEN r
    ELSE IF r.d[k] >= 1 /\ r.d[k + 1] = 8
    THEN ultra_scan_loose([d |-> [r.d EXCEPT ![k] = @ - 1, ![k + 2] = 8],
                           changed |-> TRUE], k - 1)
    ELSE ultra_scan_loose(r, k - 1)

RECURSIVE ultra_scan(_, _)
ultra_scan(r, k) ==
    IF k < 1 THEN r
    ELSE IF r.d[k] >= 1 /\ r.d[k + 1] = 8 /\ r.d[k + 2] = 0
    THEN ultra_scan([d |-> [r.d EXCEPT ![k] = @ - 1, ![k + 2] = 8],
                     changed |-> TRUE], k - 1)
    ELSE ultra_scan(r, k - 1)

\* ultra_once(d): the list after the call and the value returned
ultra_once(ds) ==
    drop_outer(ultra_scan([d |-> ds, changed |-> FALSE], Len(ds) - 2))

\* did the for loop of ultra_once rewrite a triple of ds
ultra_rewrote(ds) == ultra_scan([d |-> ds, changed |-> FALSE], Len(ds) - 2).changed

\* ------------------------------------------------------------------- views
Modes == {"All (compare)", "Compact (preferred)", "Ultra (most compact)",
          "Canonical (literal base-8)"}

\* render_all_views' funcs, or the single function counts_for_mode picks
funcs(m) ==
    IF m = "All (compare)" THEN <<"canonical", "compact", "ultra">>
    ELSE IF m = "Canonical (literal base-8)" THEN <<"canonical">>
    ELSE IF m = "Ultra (most compact)" THEN <<"ultra">>
    ELSE <<"compact">>

\* a policy function returns lst: record it, go on to the next function
Return(fn, lst) ==
    /\ counts' = (fn :> lst) @@ counts
    /\ todo' = Tail(todo)
    /\ pc' = IF Tail(todo) = <<>> THEN "done" ELSE "call"

Idle == UNCHANGED <<n, mode, octal_str, raw, digs, i>>

\* ------------------------------------------------------------ Spec (tab 1)
Init ==
    /\ n \in 0..MaxN
    /\ mode \in Modes
    /\ octal_str = format_o(n)
    /\ todo = funcs(mode)
    /\ pc = "call"
    /\ d = <<>>
    /\ counts = <<>>
    /\ fired = 0
    /\ raw = <<>>
    /\ digs = <<>>
    /\ i = 0

CallCanonical ==
    /\ pc = "call"
    /\ Head(todo) = "canonical"
    /\ Return("canonical", to_counts_canonical(octal_str))
    /\ UNCHANGED <<d, fired>>
    /\ Idle

CallCompact ==
    /\ pc = "call"
    /\ Head(todo) = "compact"
    /\ IF octal_str = <<"0">>
       THEN Return("compact", <<0>>) /\ UNCHANGED d
       ELSE d' = ints(octal_str) /\ pc' = "compact_loop"
            /\ UNCHANGED <<todo, counts>>
    /\ UNCHANGED fired
    /\ Idle

\* one test of `while compact_once(d)` in to_counts_compact
CompactLoop ==
    /\ pc = "compact_loop"
    /\ LET r == compact_once(d)
       IN  /\ d' = r.d
           /\ IF r.changed
              THEN UNCHANGED <<pc, todo, counts>>
              ELSE Return("compact", r.d)
    /\ UNCHANGED fired
    /\ Idle

CallUltra ==
    /\ pc = "call"
    /\ Head(todo) = "ultra"
    /\ IF octal_str = <<"0">>
       THEN Return("ultra", <<0>>) /\ UNCHANGED d
       ELSE d' = ints(octal_str) /\ pc' = "ultra_compact"
            /\ UNCHANGED <<todo, counts>>
    /\ UNCHANGED fired
    /\ Idle

\* one test of `while compact_once(d)` in to_counts_ultra (either loop)
UltraCompactLoop ==
    /\ pc = "ultra_compact"
    /\ LET r == compact_once(d)
       IN  /\ d' = r.d
           /\ pc' = IF r.changed THEN "ultra_compact" ELSE "ultra_loop"
    /\ UNCHANGED <<todo, counts, fired>>
    /\ Idle

\* one test of `while ultra_once(d)` in to_counts_ultra
UltraLoop ==
    /\ pc = "ultra_loop"
    /\ LET r == ultra_once(d)
       IN  /\ d' = r.d
           /\ fired' = fired + (IF ultra_rewrote(d) THEN 1 ELSE 0)
           /\ IF r.changed
              THEN pc' = "ultra_compact" /\ UNCHANGED <<todo, counts>>
              ELSE Return("ultra", r.d)
    /\ Idle

Next ==
    \/ CallCanonical
    \/ CallCompact
    \/ CompactLoop
    \/ CallUltra
    \/ UltraCompactLoop
    \/ UltraLoop

Spec == Init /\ [][Next]_vars

FairSpec == Spec /\ WF_vars(Next)

\* -------------------------------------------------------- SpecNorm (tab 2)
RECURSIVE Strings(_)
Strings(len) ==
    IF len = 0 THEN {<<>>}
    ELSE LET shorter == Strings(len - 1)
         IN  shorter \cup {Append(s, c) : s \in {t \in shorter : Len(t) = len - 1},
                                           c \in Alphabet}

NormIdle == UNCHANGED <<n, mode, todo, d, counts, fired>>

InitNorm ==
    /\ raw \in Strings(MaxRaw)
    /\ pc = "norm_filter"
    /\ digs = <<>>
    /\ i = 0
    /\ octal_str = <<>>
    /\ n = 0
    /\ mode = "All (compare)"
    /\ todo = <<>>
    /\ d = <<>>
    /\ counts = <<>>
    /\ fired = 0

NormFilter ==
    /\ pc = "norm_filter"
    /\ LET s == filter_digits(raw)
       IN  IF s = <<>>
           THEN /\ octal_str' = <<"0">>
                /\ pc' = "done"
                /\ UNCHANGED <<digs, i>>
           ELSE /\ digs' = ints(s)
                /\ i' = Len(s) - 1
                /\ pc' = "norm_carry"
                /\ UNCHANGED octal_str
    /\ UNCHANGED raw
    /\ NormIdle

NormCarry ==
    /\ pc = "norm_carry"
    /\ i >= 0
    /\ LET r == carry_step(digs, i)
       IN  digs' = r.digs /\ i' = r.i
    /\ UNCHANGED <<pc, raw, octal_str>>
    /\ NormIdle

NormStrip ==
    /\ pc = "norm_carry"
    /\ ~(i >= 0)
    /\ digs' = strip_leading(digs)
    /\ octal_str' = join_str(digs')
    /\ pc' = "done"
    /\ UNCHANGED <<raw, i>>
    /\ NormIdle

NextNorm ==
    \/ NormFilter
    \/ NormCarry
    \/ NormStrip

SpecNorm == InitNorm /\ [][NextNorm]_vars

\* ----------------------------------------------------------------- SpecOnce
RECURSIVE RingLists(_)
RingLists(len) ==
    IF len = 1 THEN {<<c>> : c \in 0..8}
    ELSE LET shorter == RingLists(len - 1)
         IN  shorter \cup {Append(s, c) : s \in {t \in shorter : Len(t) = len - 1},
                                           c \in 0..8}

InitOnce ==
    /\ d \in RingLists(MaxRing)
    /\ pc = "once"
    /\ counts = ("arg" :> d)      \* the argument of the call, kept for comparison
    /\ fired = 0
    /\ n = 0
    /\ mode = "Ultra (most compact)"
    /\ octal_str = <<>>
    /\ todo = <<>>
    /\ raw = <<>>
    /\ digs = <<>>
    /\ i = 0

OnceUltra ==
    /\ pc = "once"
    /\ d' = ultra_once(d).d
    /\ fired' = fired + (IF ultra_rewrote(d) THEN 1 ELSE 0)
    /\ pc' = "done"
    /\ UNCHANGED <<counts, todo>>
    /\ Idle

NextOnce == OnceUltra

SpecOnce == InitOnce /\ [][NextOnce]_vars

\* ------------------------------------------------------------- properties
\* the canonical digit sequence s the policies were given
s_in == ints(octal_str)

\* no position k with r[k] >= 1 and r[k+1] = 0
NoEmptyInner(r) == \A k \in 1..(Len(r) - 1) : ~(r[k] >= 1 /\ r[k + 1] = 0)

\* no position k with r[k] >= 1, r[k+1] = 8 and r[k+2] = 0
NoUltraTriple(r) ==
    \A k \in 1..(Len(r) - 2) : ~(r[k] >= 1 /\ r[k + 1] = 8 /\ r[k + 2] = 0)

RingCountForm(r) ==
    /\ Len(r) >= 1
    /\ \A k \in 1..Len(r) : r[k] \in 0..8
    /\ (r[1] = 0 => r = <<0>>)

Returned(fn) == fn \in DOMAIN counts

AllReturned == pc = "done" /\ mode = "All (compare)"

\* C1: every sequence a policy (canonical, compact, ultra) returns has the
\* same value as the canonical digit sequence s it was given.
C1_ValuePreserved ==
    \A fn \in DOMAIN counts : value(counts[fn]) = value(s_in)

C1_Witness ==
    /\ AllReturned
    /\ counts["compact"] # counts["canonical"]
    /\ Len(counts["ultra"]) < Len(s_in)
    /\ value(counts["ultra"]) = value(s_in)
    /\ value(s_in) > 64

\* C2: the base-8 value of normalize_octal_str's result equals the sum of
\* d[k] * 8^(L-k) over the digit characters of the input; "8" gives 10 and
\* "9" gives 11.
C2_NormalizeKeepsWeightedSum ==
    pc = "done" =>
        /\ value(ints(octal_str)) = value(ints(filter_digits(raw)))
        /\ (raw = <<"8">> => octal_str = <<"1", "0">>)
        /\ (raw = <<"9">> => octal_str = <<"1", "1">>)

C2_Witness ==
    /\ pc = "done"
    /\ raw = <<"9", "9", "9">>
    /\ octal_str = <<"1", "2", "2", "1">>
    /\ value(ints(octal_str)) = 657

C4_CompactPostcondition ==
    Returned("compact") => NoEmptyInner(counts["compact"])

C4_Witness ==
    /\ Returned("compact")
    /\ ~NoEmptyInner(s_in)
    /\ Len(s_in) = 4
    /\ Len(counts["compact"]) = 4
    /\ NoEmptyInner(counts["compact"])

\* C5: the list to_counts_ultra returns has no adjacent pair (>= 1, 0) and no
\* triple (>= 1, 8, 0).
C5_UltraPostcondition ==
    Returned("ultra") =>
        NoEmptyInner(counts["ultra"]) /\ NoUltraTriple(counts["ultra"])

C5_Witness ==
    /\ Returned("ultra")
    /\ mode = "Ultra (most compact)"
    /\ ~NoEmptyInner(s_in)
    /\ Len(counts["ultra"]) = 3
    /\ NoEmptyInner(counts["ultra"])
    /\ NoUltraTriple(counts["ultra"])

\* C6: every list a policy returns is non-empty, has every digit in 0..8 and
\* no leading zero unless it is [0]; no digit of the list being rewritten is
\* ever negative or above 8.
C6_RingCountForm ==
    /\ \A fn \in DOMAIN counts : RingCountForm(counts[fn])
    /\ \A k \in 1..Len(d) : d[k] \in 0..8

C6_Witness ==
    /\ AllReturned
    /\ \E k \in 1..Len(counts["compact"]) : counts["compact"][k] = 8
    /\ \E k \in 1..Len(s_in) : s_in[k] = 0
    /\ \A fn \in DOMAIN counts : RingCountForm(counts[fn])

C8_ExtraBorrowFires ==
    (AllReturned /\ octal_str = <<"1", "0", "0", "0">>) =>
        /\ fired >= 1
        /\ counts["ultra"] # counts["compact"]
        /\ value(counts["ultra"]) = 512

\* C8 amended: on [1,0,0,0] the Ultra triple rule never fires, to_counts_ultra
\* returns the same list as to_counts_compact, [7,7,8], and its value is 512.
C8_NoExtraBorrow ==
    octal_str = <<"1", "0", "0", "0">> =>
        /\ fired = 0
        /\ (Returned("ultra") =>
               counts["ultra"] = <<7, 7, 8>> /\ value(counts["ultra"]) = 512)
        /\ (Returned("ultra") /\ Returned("compact") =>
               counts["ultra"] = counts["compact"])

C8_Witness ==
    /\ AllReturned
    /\ octal_str = <<"1", "0", "0", "0">>
    /\ n = 512
    /\ counts["ultra"] = <<7, 7, 8>>
    /\ counts["compact"] = <<7, 7, 8>>

\* C9: the loops of to_counts_compact and to_counts_ultra stop (every view
\* finishes); the list never grows and is never longer than the input; a loop
\* is left exactly by the pass that fires no rule and strips no leading zero.
InLoop == pc \in {"compact_loop", "ultra_compact", "ultra_loop"}

C9_NeverGrows == InLoop => Len(d') <= Len(d)

C9_CompactStopsExactly ==
    pc \in {"compact_loop", "ultra_compact"} =>
        ((pc' # pc) <=> (d' = d /\ NoEmptyInner(d) /\ (d[1] = 0 => Len(d) = 1)))

C9_UltraStopsExactly ==
    pc = "ultra_loop" =>
        ((pc' # pc) <=> (d' = d /\ NoUltraTriple(d) /\ (d[1] = 0 => Len(d) = 1)))

C9_Termination ==
    /\ <>(pc = "done")
    /\ [](Len(d) <= Len(octal_str))
    /\ [][C9_NeverGrows]_vars
    /\ [][C9_CompactStopsExactly]_vars
    /\ [][C9_UltraStopsExactly]_vars

C9_Witness ==
    /\ AllReturned
    /\ Len(s_in) = 4
    /\ Len(counts["compact"]) = 3
    /\ Len(counts["ultra"]) = 3
    /\ s_in[2] # 0

\* C10: after the initial Compact stabilization in to_counts_ultra every digit
\* is in 1..8, ultra_once never rewrites a triple, and to_counts_ultra returns
\* the same list as to_counts_compact.
C10_UltraEqualsCompact ==
    /\ (pc = "ultra_loop" => \A k \in 1..Len(d) : d[k] \in 1..8)
    /\ fired = 0
    /\ (Returned("ultra") /\ Returned("compact") =>
           counts["ultra"] = counts["compact"])

C10_Witness ==
    /\ AllReturned
    /\ s_in = <<2, 0, 0, 5>>
    /\ counts["ultra"] = counts["compact"]
    /\ counts["ultra"] # counts["canonical"]
    /\ fired = 0

====
